---------------------------- MODULE Spec2Model ----------------------------
(***************************************************************************)
(* Model of src/app.py: the landed-cost engine (safe_div, norm_box,        *)
(* calc_shipment, build_excel), the pydantic input models that guard it    *)
(* (LineIn, ShipmentIn, ProductTemplateIn) and the request handlers that   *)
(* reach it.                                                               *)
(*                                                                         *)
(* Numbers.  Python floats are modelled as exact rationals, records        *)
(* [n |-> numerator, d |-> denominator] in lowest terms with d > 0.  An    *)
(* equality of two float results is therefore an equality in exact         *)
(* arithmetic; the program's values agree with it up to IEEE-754 rounding. *)
(* The record with d = 0 stands for a raised ZeroDivisionError.            *)
(*                                                                         *)
(* Text.  A Python str is a sequence of one-character strings, so that     *)
(* strip(), upper() and lower() are computed and not assumed.              *)
(***************************************************************************)
EXTENDS Integers, Sequences, FiniteSets, TLC

(***************************************************************************)
(* Bounds of the model.                                                    *)
(***************************************************************************)
\* the longest list of lines in a request payload
MaxLines == 2
\* the longest free-text box label sent to POST /api/products
MaxLabelLen == 3

\* the most shipments saved in a run of the account routes
MaxShipments == 2

(***************************************************************************)
(* Rational arithmetic (Python float).                                     *)
(***************************************************************************)
Abs(x) == IF x < 0 THEN -x ELSE x

RECURSIVE GCD(_, _)
GCD(a, b) == IF b = 0 THEN a ELSE GCD(b, a % b)

\* the value raised by a division by zero
Raised == [n |-> 0, d |-> 0]

IsRaised(x) == x.d = 0

Q(n, d) ==
    LET g == GCD(Abs(n), Abs(d))
        sgn == IF d < 0 THEN -1 ELSE 1
    IN  [n |-> sgn * (n \div g), d |-> sgn * (d \div g)]

Zero == [n |-> 0, d |-> 1]

One == [n |-> 1, d |-> 1]

\* float(i) of a Python int
R(i) == [n |-> i, d |-> 1]

\* sums and products are reduced before they are multiplied out, so that the
\* intermediate integers stay small
Add(x, y) ==
    IF IsRaised(x) \/ IsRaised(y) THEN Raised
    ELSE LET g == GCD(x.d, y.d)
         IN  Q(x.n * (y.d \div g) + y.n * (x.d \div g), (x.d \div g) * y.d)

Neg(x) == [n |-> -x.n, d |-> x.d]

Sub(x, y) == Add(x, Neg(y))

Mul(x, y) ==
    IF IsRaised(x) \/ IsRaised(y) THEN Raised
    ELSE IF x.n = 0 \/ y.n = 0 THEN [n |-> 0, d |-> 1]
    ELSE LET g1 == GCD(Abs(x.n), y.d)
             g2 == GCD(Abs(y.n), x.d)
         IN  [n |-> (x.n \div g1) * (y.n \div g2),
              d |-> (x.d \div g2) * (y.d \div g1)]

\* Python's a / b: raises ZeroDivisionError when b is zero
Div(x, y) ==
    IF IsRaised(x) \/ IsRaised(y) \/ y.n = 0 THEN Raised
    ELSE Mul(x, IF y.n < 0 THEN [n |-> -y.d, d |-> -y.n] ELSE [n |-> y.d, d |-> y.n])

Lt(x, y) ==
    LET g == GCD(x.d, y.d) IN x.n * (y.d \div g) < y.n * (x.d \div g)

Le(x, y) ==
    LET g == GCD(x.d, y.d) IN x.n * (y.d \div g) <= y.n * (x.d \div g)

\* Python's truth value of a number: false exactly for zero
Truthy(x) == x.n # 0

RECURSIVE Pow10(_)
Pow10(k) == IF k = 0 THEN 1 ELSE 10 * Pow10(k - 1)

\* the first k decimal digits of rem / d (0 <= rem < d) as an integer, and
\* what is left of rem after them
RECURSIVE Decimals(_, _, _)
Decimals(rem, d, k) ==
    IF k = 0 THEN <<0, rem>>
    ELSE LET first == (rem * 10) \div d
             rest == Decimals(rem * 10 - first * d, d, k - 1)
         IN  <<first * Pow10(k - 1) + rest[1], rest[2]>>

\* a value cut after k decimals (fl of them, rem / d left over), rounded to the
\* nearest, a tie going to the even digit
Nearest(fl, rem, d) ==
    IF 2 * rem > d \/ (2 * rem = d /\ fl % 2 = 1) THEN fl + 1 ELSE fl

RoundDecimals(whole, dec, d, k) ==
    Q(Nearest(whole * Pow10(k) + dec[1], dec[2], d), Pow10(k))

\* Python's round(x, k): to k decimals, a tie going to the even digit.  (A
\* float is rarely an exact tie: Python decides by the float's binary value.)
Round(x, k) == RoundDecimals(x.n \div x.d, Decimals(x.n % x.d, x.d, k), x.d, k)

(***************************************************************************)
(* Text (Python str).                                                      *)
(***************************************************************************)
\* Python's None where a str is expected
None == <<"None">>

LowerCase == <<"a", "b", "c", "d", "e", "f", "g", "h", "i", "j", "k", "l", "m",
               "n", "o", "p", "q", "r", "s", "t", "u", "v", "w", "x", "y", "z">>
UpperCase == <<"A", "B", "C", "D", "E", "F", "G", "H", "I", "J", "K", "L", "M",
               "N", "O", "P", "Q", "R", "S", "T", "U", "V", "W", "X", "Y", "Z">>

IsSpace(c) == c \in {" ", "\t", "\n", "\r"}

UpperChar(c) ==
    IF \E i \in 1..26 : LowerCase[i] = c
    THEN UpperCase[CHOOSE i \in 1..26 : LowerCase[i] = c]
    ELSE c

LowerChar(c) ==
    IF \E i \in 1..26 : UpperCase[i] = c
    THEN LowerCase[CHOOSE i \in 1..26 : UpperCase[i] = c]
    ELSE c

\* str.upper()
Upper(t) == [i \in 1..Len(t) |-> UpperChar(t[i])]

\* str.lower()
Lower(t) == [i \in 1..Len(t) |-> LowerChar(t[i])]

RECURSIVE LStrip(_)
LStrip(t) == IF t # <<>> /\ IsSpace(Head(t)) THEN LStrip(Tail(t)) ELSE t

RECURSIVE RStrip(_)
RStrip(t) ==
    IF t # <<>> /\ IsSpace(t[Len(t)]) THEN RStrip(SubSeq(t, 1, Len(t) - 1)) ELSE t

\* str.strip()
Strip(t) == RStrip(LStrip(t))

\* Python's (x or ""): None and the empty string both give ""
OrEmpty(t) == IF t = None \/ t = <<>> THEN <<>> ELSE t

FB == <<"F", "B">>
HB == <<"H", "B">>
QB == <<"Q", "B">>

\* dict.get(key, default)
Get(m, k, default) == IF k \in DOMAIN m THEN m[k] ELSE default

(***************************************************************************)
(* The engine.                                                             *)
(***************************************************************************)
\* lines 279-280 without the guard on the divisor
unsafe_div(a, b) == Div(a, b)

\* lines 279-280
safe_div(a, b) == IF Truthy(b) THEN Div(a, b) ELSE Zero

\* line 285
known_box(bt) == IF bt \in {FB, HB, QB} THEN bt ELSE HB

\* lines 283-285 without the strip()
norm_box_unstripped(bt) == known_box(Upper(OrEmpty(bt)))

\* lines 283-285
norm_box(bt) == known_box(Upper(Strip(OrEmpty(bt))))

\* lines 299-301 with the default looked up under the label as it was typed
kg_box_used_raw_label(s, ln, bt) ==
    IF Le(ln.kg_per_box, Zero) THEN Get(s.kg_defaults, ln.box_type, Zero)
    ELSE ln.kg_per_box

\* lines 299-301: the per-box weight a line of category bt is charged for
kg_box_used(s, ln, bt) ==
    IF Le(ln.kg_per_box, Zero) THEN Get(s.kg_defaults, bt, Zero) ELSE ln.kg_per_box

\* line 308: the volumetric factor of a line of category bt
box_weight(s, bt) == Get(s.box_weights, bt, One)

\* line 305
invoice_box(ln) == Mul(ln.price_per_bunch, R(ln.bunch_per_box))

\* lines 303-327: the dict appended to base
base_dict(ln, bt, kg_box, inv_box, w) ==
    [finca |-> ln.finca,
     origin |-> ln.origin,
     product |-> ln.product,
     box_type |-> bt,
     boxes |-> ln.boxes,
     bunch_per_box |-> ln.bunch_per_box,
     stems_per_bunch |-> ln.stems_per_bunch,
     kg_per_box_used |-> kg_box,
     kg_line |-> Mul(kg_box, R(ln.boxes)),
     price_per_bunch |-> ln.price_per_bunch,
     invoice_box |-> inv_box,
     invoice_line |-> Mul(inv_box, R(ln.boxes)),
     weighted_boxes |-> Mul(R(ln.boxes), w)]

\* lines 299-327: the quantities of a line of category bt
base_of(s, ln, bt) ==
    base_dict(ln, bt, kg_box_used(s, ln, bt), invoice_box(ln), box_weight(s, bt))

\* lines 296-327 with the lookups made under the label as it was typed
base_row_raw_label(s, ln) ==
    base_dict(ln, norm_box(ln.box_type), kg_box_used(s, ln, ln.box_type),
              invoice_box(ln), box_weight(s, ln.box_type))

\* lines 296-327: one pass of the first loop
base_row(s, ln) == base_of(s, ln, norm_box(ln.box_type))

\* lines 294-332 with base built back to front
base_rows_reversed(s) ==
    [i \in 1..Len(s.lines) |-> base_row(s, s.lines[Len(s.lines) + 1 - i])]

\* lines 294-332: the first loop, base[1..k]
base_rows(s) == [i \in 1..Len(s.lines) |-> base_row(s, s.lines[i])]

\* the running total of a float field after the first k rows, added in input
\* order from 0.0 (total_kilos += ..., lines 330-332, grand_landed += ..., 347)
RECURSIVE running_total(_, _, _)
running_total(rows, f, k) ==
    IF k = 0 THEN Zero ELSE Add(running_total(rows, f, k - 1), rows[k][f])

\* line 329: total_boxes += boxes, an int
RECURSIVE running_boxes(_, _)
running_boxes(rows, k) ==
    IF k = 0 THEN 0 ELSE running_boxes(rows, k - 1) + rows[k].boxes

\* lines 334-336: the three pools, beside the four totals they are split by
pools(s, total_boxes, total_kilos, total_invoice, total_weighted_boxes) ==
    [total_boxes |-> total_boxes,
     total_kilos |-> total_kilos,
     total_invoice |-> total_invoice,
     total_weighted_boxes |-> total_weighted_boxes,
     freight_total |-> Mul(total_kilos, s.rate_per_kg),
     duty_total |-> Mul(total_invoice, s.duty_rate),
     miami_total |-> s.miami_to_ny_total]

\* lines 289-292, 329-336: the shipment's bases and pools after the first loop
bases(s, base) ==
    pools(s, running_boxes(base, Len(base)),
          running_total(base, "kg_line", Len(base)),
          running_total(base, "invoice_line", Len(base)),
          running_total(base, "weighted_boxes", Len(base)))

\* a slip: the line's fraction of the basis, not multiplied by the pool
freight_alloc_fraction(r, t) == safe_div(r.kg_line, t.total_kilos)

\* line 342
freight_alloc(r, t) == Mul(safe_div(r.kg_line, t.total_kilos), t.freight_total)

\* line 343
duty_alloc(r, t) == Mul(safe_div(r.invoice_line, t.total_invoice), t.duty_total)

\* line 344
miami_alloc(r, t) ==
    Mul(safe_div(r.weighted_boxes, t.total_weighted_boxes), t.miami_total)

\* line 346 with the duty share left out of the landed total
landed_line_without_duty(r, freight, duty, miami) ==
    Add(Add(r.invoice_line, freight), miami)

\* line 346
landed_line(r, freight, duty, miami) ==
    Add(Add(Add(r.invoice_line, freight), duty), miami)

\* line 349 with a plain division by the box count
cost_box_unguarded(landed, boxes) == Div(landed, R(boxes))

\* line 349
cost_box(landed, boxes) == safe_div(landed, R(boxes))

\* line 350
cost_bunch(cost, bunch_per_box) == safe_div(cost, R(bunch_per_box))

\* lines 355-356 pricing by markup on cost instead of margin on the sell price
sell_box_markup(cost, m) == Mul(cost, Add(One, m))

\* lines 355-356 taking the margin off the cost
sell_box_discount(cost, m) == Mul(cost, Sub(One, m))

\* lines 355-356: the sell price per box at margin m
sell_box(cost, m) == safe_div(cost, Sub(One, m))

\* lines 357-358: the sell price per bunch from the sell price per box
sell_bunch(sell, bunch_per_box) == safe_div(sell, R(bunch_per_box))

\* lines 360-374: the dict appended to out_lines
line_dict(r, freight, duty, miami, landed, cost, sell_box_m1, sell_box_m2) ==
    [finca |-> r.finca,
     origin |-> r.origin,
     product |-> r.product,
     box_type |-> r.box_type,
     boxes |-> r.boxes,
     bunch_per_box |-> r.bunch_per_box,
     stems_per_bunch |-> r.stems_per_bunch,
     kg_per_box_used |-> r.kg_per_box_used,
     kg_line |-> r.kg_line,
     price_per_bunch |-> r.price_per_bunch,
     invoice_box |-> r.invoice_box,
     invoice_line |-> r.invoice_line,
     weighted_boxes |-> r.weighted_boxes,
     freight_alloc |-> freight,
     duty_alloc |-> duty,
     miami_alloc |-> miami,
     landed_line |-> landed,
     cost_per_box |-> cost,
     cost_per_bunch |-> cost_bunch(cost, r.bunch_per_box),
     sell_box_m1 |-> sell_box_m1,
     sell_box_m2 |-> sell_box_m2,
     sell_bunch_m1 |-> sell_bunch(sell_box_m1, r.bunch_per_box),
     sell_bunch_m2 |-> sell_bunch(sell_box_m2, r.bunch_per_box)]

\* lines 352-358: both margins are priced from the one cost per box
line_priced(s, r, freight, duty, miami, landed, cost) ==
    line_dict(r, freight, duty, miami, landed, cost,
              sell_box(cost, s.margin_a), sell_box(cost, s.margin_b))

\* lines 346-349
line_landed(s, r, freight, duty, miami, landed) ==
    line_priced(s, r, freight, duty, miami, landed, cost_box(landed, r.boxes))

\* lines 342-346
line_allocated(s, r, freight, duty, miami) ==
    line_landed(s, r, freight, duty, miami, landed_line(r, freight, duty, miami))

\* lines 341-374: one pass of the second loop, the line's result
out_line(s, r, t) ==
    line_allocated(s, r, freight_alloc(r, t), duty_alloc(r, t), miami_alloc(r, t))

\* the float fields the second loop computes
ComputedFields ==
    {"freight_alloc", "duty_alloc", "miami_alloc", "landed_line", "cost_per_box",
     "cost_per_bunch", "sell_box_m1", "sell_box_m2", "sell_bunch_m1",
     "sell_bunch_m2"}

\* lines 376-385
totals_of(t, grand_landed) ==
    [total_boxes |-> t.total_boxes,
     total_weighted_boxes |-> Round(t.total_weighted_boxes, 4),
     total_kilos |-> Round(t.total_kilos, 4),
     total_invoice |-> Round(t.total_invoice, 2),
     freight_total |-> Round(t.freight_total, 2),
     duty_total |-> Round(t.duty_total, 2),
     miami_to_ny_total |-> Round(t.miami_total, 2),
     grand_landed_total |-> Round(grand_landed, 2)]

\* an exception raised in the second loop leaves the function with no result
raised_in(out_lines) ==
    \E i \in 1..Len(out_lines) : \E f \in ComputedFields : IsRaised(out_lines[i][f])

\* lines 376-387: the totals and the returned dict
result_of(s, t, out_lines) ==
    IF raised_in(out_lines) THEN [exc |-> "ZeroDivisionError"]
    ELSE [awb |-> s.awb,
          totals |-> totals_of(t, running_total(out_lines, "landed_line", Len(out_lines))),
          lines |-> out_lines]

\* lines 338-387: the second loop over base
second_loop(s, base, t) ==
    result_of(s, t, [i \in 1..Len(base) |-> out_line(s, base[i], t)])

\* lines 334-387
allocate(s, base) == second_loop(s, base, bases(s, base))

\* lines 288-387
calc_shipment(s) == allocate(s, base_rows(s))

\* lines 390-458: the workbook, one row per result line in the order and
\* rounding of the "Landed Cost" sheet, and the "Totals" sheet
build_excel(result) ==
    [rows |->
        [i \in 1..Len(result.lines) |->
            LET r == result.lines[i]
            IN  <<result.awb, r.finca, r.origin, r.product, r.box_type, r.boxes,
                  r.bunch_per_box, r.stems_per_bunch,
                  Round(r.price_per_bunch, 4), Round(r.invoice_box, 4),
                  Round(r.invoice_line, 2), Round(r.kg_per_box_used, 4),
                  Round(r.kg_line, 4), Round(r.freight_alloc, 2),
                  Round(r.duty_alloc, 2), Round(r.miami_alloc, 2),
                  Round(r.landed_line, 2), Round(r.cost_per_box, 4),
                  Round(r.cost_per_bunch, 4), Round(r.sell_box_m1, 4),
                  Round(r.sell_box_m2, 4), Round(r.sell_bunch_m1, 4),
                  Round(r.sell_bunch_m2, 4)>>],
     totals |-> result.totals]

(***************************************************************************)
(* Input validation (pydantic).                                            *)
(***************************************************************************)
\* confloat(ge=0, le=0.95) of margin_a, margin_b (lines 270-271)
MarginMax == Q(95, 100)

\* lines 249-261
LineIn(ln) ==
    /\ ln.box_type # None
    /\ ln.boxes >= 0
    /\ ln.bunch_per_box >= 1
    /\ ln.stems_per_bunch >= 1
    /\ Le(Zero, ln.kg_per_box)
    /\ Le(Zero, ln.price_per_bunch)

\* lines 270-271 with the margin bounded by 1 instead of 0.95
margin_ok_up_to_one(m) == Le(Zero, m) /\ Le(m, One)

\* lines 270-271: the bound of one margin field
margin_ok(m) == Le(Zero, m) /\ Le(m, MarginMax)

\* lines 264-276
ShipmentIn(b) ==
    /\ Le(Zero, b.rate_per_kg)
    /\ Le(Zero, b.duty_rate) /\ Le(b.duty_rate, One)
    /\ Le(Zero, b.miami_to_ny_total)
    /\ margin_ok(b.margin_a)
    /\ margin_ok(b.margin_b)
    /\ \A k \in DOMAIN b.kg_defaults : Le(Zero, b.kg_defaults[k])
    /\ \A k \in DOMAIN b.box_weights : Le(Zero, b.box_weights[k])
    /\ \A i \in 1..Len(b.lines) : LineIn(b.lines[i])

(***************************************************************************)
(* State.                                                                  *)
(***************************************************************************)
VARIABLES
    pc,                \* "recv": a request waits for its handler; "done": answered
    req,               \* the request: route, cookie and body or path parameter
    resp,              \* the response to the last handled request
    call,              \* the last call of calc_shipment: its argument and outcome
    shipments,         \* table shipments, in insertion order
    shipment_lines,    \* table shipment_lines, in insertion order
    product_templates, \* table product_templates, in insertion order
    users,             \* table users, in insertion order
    tenants,           \* table tenants, in insertion order
    tenant_settings,   \* table tenant_settings, in insertion order
    procs,             \* the /auth requests in flight, one per worker thread
    threads,           \* the invocations of calc_shipment in flight, one per thread
    frames             \* the local variables of those invocations, one frame each

\* the tables and requests of the account routes
accounts == <<users, tenants, tenant_settings, procs>>

\* the invocations of calc_shipment that run side by side
engine == <<threads, frames>>

vars ==
    <<pc, req, resp, call, shipments, shipment_lines, product_templates,
      users, tenants, tenant_settings, procs, threads, frames>>

NoCall == [made |-> FALSE]
NoResp == [status |-> 0]

\* no request in hand
NoReq == [route |-> "none"]

(***************************************************************************)
(* Sessions.                                                               *)
(***************************************************************************)
\* e-mail addresses as they are typed; the first two differ in case only
EmailA == <<"a", "@", "x">>
EmailUpperA == <<"A", "@", "x">>
EmailB == <<"b", "@", "x">>

\* two owners, each in a tenant of their own, as two signups leave them
Users ==
    <<[id |-> "u1", tenant_id |-> "t1", email |-> EmailA, password_hash |-> "pw1",
       google_sub |-> ""],
      [id |-> "u2", tenant_id |-> "t2", email |-> EmailB, password_hash |-> "pw2",
       google_sub |-> ""]>>

\* db.get(User, id) found nothing
NoUser == [id |-> ""]

\* db.get(User, id), line 237
user_by_id(id) ==
    IF \E i \in 1..Len(users) : users[i].id = id
    THEN users[CHOOSE i \in 1..Len(users) : users[i].id = id]
    ELSE NoUser

\* lines 203-213: the session token of a user; its signature is what makes a
\* cookie of kind "jwt" decodable
create_session_token(user) ==
    [kind |-> "jwt", sub |-> user.id, tenant_id |-> user.tenant_id]

NoCookie == [kind |-> "none"]
BadCookie == [kind |-> "undecodable"]
Token(u) == create_session_token(Users[CHOOSE i \in 1..Len(Users) : Users[i].id = u])

\* lines 236-240: the row the token names, if its tenant is the token's
session_user(cookie, user) ==
    IF user.id = "" \/ user.tenant_id # cookie.tenant_id THEN [ok |-> FALSE]
    ELSE [ok |-> TRUE, id |-> user.id, tenant_id |-> user.tenant_id]

\* lines 228-243: the user of the session cookie, or no user (401)
get_current_user(cookie) ==
    IF cookie.kind # "jwt" THEN [ok |-> FALSE]
    ELSE IF cookie.sub = "" \/ cookie.tenant_id = "" THEN [ok |-> FALSE]
    ELSE session_user(cookie, user_by_id(cookie.sub))

\* lines 189-192: strip, lower-case, every run of white space to one blank
RECURSIVE collapse_spaces(_)
collapse_spaces(t) ==
    IF t = <<>> THEN <<>>
    ELSE IF IsSpace(Head(t))
         THEN <<" ">> \o collapse_spaces(LStrip(t))
         ELSE <<Head(t)>> \o collapse_spaces(Tail(t))

normalize_product_name(name) == collapse_spaces(Lower(Strip(OrEmpty(name))))

\* lines 716-722
ProductTemplateIn(b) ==
    /\ b.product_name # None
    /\ b.box_type # None
    /\ b.bunch_per_box >= 1
    /\ b.stems_per_bunch >= 1
    /\ Le(Zero, b.kg_per_box)
    /\ Le(Zero, b.price_per_bunch)

(***************************************************************************)
(* The requests the model sends.                                           *)
(***************************************************************************)
KgFull == (FB :> R(30)) @@ (HB :> R(15)) @@ (QB :> Q(15, 2))
\* no entry for HB or QB: the key "hb" is not the key "HB"
KgPartial == (FB :> R(30)) @@ (<<"h", "b">> :> R(15))
WFull == (FB :> One) @@ (HB :> Q(1, 2)) @@ (QB :> Q(1, 4))
WPartial == (FB :> One) @@ (<<"h", "b">> :> Q(1, 2))
WZero == (FB :> Zero) @@ (HB :> Zero) @@ (QB :> Zero)

BaseHeader ==
    [awb |-> "AWB-1", rate_per_kg |-> R(2), duty_rate |-> Q(1, 5),
     miami_to_ny_total |-> R(100), margin_a |-> Q(35, 100), margin_b |-> Q(40, 100),
     kg_defaults |-> KgFull, box_weights |-> WFull]

ValidHeaders ==
    {[BaseHeader EXCEPT !.rate_per_kg = r, !.miami_to_ny_total = m,
                        !.kg_defaults = d[1], !.box_weights = d[2]] :
        r \in {Zero, R(2)}, m \in {Zero, R(100)},
        d \in {<<KgFull, WFull>>, <<KgPartial, WPartial>>, <<KgFull, WZero>>}}
    \cup {[BaseHeader EXCEPT !.duty_rate = Zero],
          [BaseHeader EXCEPT !.duty_rate = One],
          [BaseHeader EXCEPT !.margin_a = Q(40, 100), !.margin_b = Q(35, 100)],
          [BaseHeader EXCEPT !.margin_a = Zero, !.margin_b = MarginMax],
          [BaseHeader EXCEPT !.margin_a = Q(35, 100), !.margin_b = Q(35, 100)]}

InvalidHeaders ==
    {[BaseHeader EXCEPT !.rate_per_kg = R(-1)],
     [BaseHeader EXCEPT !.duty_rate = Q(3, 2)],
     [BaseHeader EXCEPT !.duty_rate = Q(-1, 5)],
     [BaseHeader EXCEPT !.miami_to_ny_total = R(-100)],
     [BaseHeader EXCEPT !.margin_a = One],
     [BaseHeader EXCEPT !.margin_b = Q(3, 2)],
     [BaseHeader EXCEPT !.margin_b = Q(96, 100)],
     [BaseHeader EXCEPT !.margin_a = Q(-1, 10)],
     [BaseHeader EXCEPT !.kg_defaults = (HB :> R(-15))],
     [BaseHeader EXCEPT !.box_weights = (HB :> Q(-1, 2))]}

LineA ==
    [finca |-> "La Rosa", origin |-> "EC", product |-> "Rose Freedom",
     box_type |-> HB, boxes |-> 10, bunch_per_box |-> 10, stems_per_bunch |-> 25,
     kg_per_box |-> R(15), price_per_bunch |-> R(2)]

LineB ==
    [finca |-> "El Campo", origin |-> "CO", product |-> "Carnation",
     box_type |-> FB, boxes |-> 10, bunch_per_box |-> 10, stems_per_bunch |-> 20,
     kg_per_box |-> R(30), price_per_bunch |-> R(4)]

ValidLines ==
    {LineA, LineB,
     [LineA EXCEPT !.box_type = <<" ", "h", "b", " ">>, !.boxes = 4,
                   !.bunch_per_box = 12, !.kg_per_box = Zero,
                   !.price_per_bunch = Q(1, 250)],
     [LineA EXCEPT !.box_type = <<"X", "Y", "Z">>, !.boxes = 0,
                   !.bunch_per_box = 12, !.kg_per_box = Zero],
     [LineB EXCEPT !.box_type = <<"q", "b">>, !.boxes = 5, !.bunch_per_box = 1,
                   !.stems_per_bunch = 1, !.kg_per_box = Zero,
                   !.price_per_bunch = Zero]}

InvalidLines ==
    {[LineA EXCEPT !.boxes = -1],
     [LineA EXCEPT !.bunch_per_box = 0],
     [LineA EXCEPT !.stems_per_bunch = 0],
     [LineA EXCEPT !.kg_per_box = R(-1)],
     [LineA EXCEPT !.price_per_bunch = Q(-1, 2)],
     [LineA EXCEPT !.box_type = None]}

LineLists == UNION {[1..k -> ValidLines] : k \in 0..MaxLines}

WithLines(h, ls) ==
    [awb |-> h.awb, rate_per_kg |-> h.rate_per_kg, duty_rate |-> h.duty_rate,
     miami_to_ny_total |-> h.miami_to_ny_total, margin_a |-> h.margin_a,
     margin_b |-> h.margin_b, kg_defaults |-> h.kg_defaults,
     box_weights |-> h.box_weights, lines |-> ls]

Payloads ==
    {WithLines(h, ls) : h \in ValidHeaders, ls \in LineLists}
    \cup {WithLines(h, <<LineA, LineB>>) : h \in InvalidHeaders}
    \cup {WithLines(BaseHeader, <<LineA, bad>>) : bad \in InvalidLines}

PostRoutes == {"api_calculate", "api_export", "save_shipment"}
GetRoutes == {"get_shipment", "export_shipment_xlsx"}

LabelChars == {" ", "h", "b", "q", "H", "B", "F", "x"}
Labels == UNION {[1..k -> LabelChars] : k \in 0..MaxLabelLen}

RoseRed == <<"r", "o", "s", "e", " ", "r", "e", "d">>
ProductNames ==
    {RoseRed, <<" ", "R", "o", "s", "e", " ", "\t", "R", "E", "D", " ">>,
     <<"L", "i", "l", "y">>, <<" ", " ">>, <<>>}

BaseTemplate ==
    [product_name |-> RoseRed, box_type |-> HB, bunch_per_box |-> 12,
     stems_per_bunch |-> 25, kg_per_box |-> Zero, price_per_bunch |-> Zero]

TemplateBodies ==
    {[BaseTemplate EXCEPT !.box_type = l] : l \in Labels}
    \cup {[BaseTemplate EXCEPT !.product_name = n, !.box_type = FB,
                               !.kg_per_box = R(30)] : n \in ProductNames}
    \cup {[BaseTemplate EXCEPT !.box_type = None],
          [BaseTemplate EXCEPT !.bunch_per_box = 0],
          [BaseTemplate EXCEPT !.price_per_bunch = R(-1)]}

\* the row POST /api/products writes for tenant t1 and BaseTemplate
StoredTemplate ==
    [tenant_id |-> "t1", product_name |-> RoseRed, box_type |-> HB,
     bunch_per_box |-> 12, stems_per_bunch |-> 25, kg_per_box |-> Zero,
     price_per_bunch |-> Zero]

FirstRequests ==
    {[route |-> r, cookie |-> c, body |-> b] :
        r \in PostRoutes, c \in {NoCookie, Token("u1")}, b \in Payloads}
    \cup {[route |-> "upsert_product", cookie |-> Token("u1"), body |-> b] :
            b \in TemplateBodies}
    \cup {[route |-> "upsert_product", cookie |-> c, body |-> BaseTemplate] :
            c \in {NoCookie, BadCookie, Token("u2")}}

Init ==
    /\ pc = "recv"
    /\ req \in FirstRequests
    /\ resp = NoResp
    /\ call = NoCall
    /\ shipments = <<>>
    /\ shipment_lines = <<>>
    /\ product_templates \in
         IF req.route = "upsert_product" THEN {<<>>, <<StoredTemplate>>} ELSE {<<>>}
    /\ users = Users
    /\ tenants = <<[id |-> "t1"], [id |-> "t2"]>>
    /\ tenant_settings = <<[tenant_id |-> "t1"], [tenant_id |-> "t2"]>>
    /\ procs = <<>>
    /\ threads = <<>>
    /\ frames = <<>>

(***************************************************************************)
(* Handlers.                                                               *)
(***************************************************************************)
\* what a handler does with the outcome of calc_shipment
Raises(result) == "exc" \in DOMAIN result

\* the record of a call of calc_shipment
Called(s, result) == [made |-> TRUE, arg |-> s, ret |-> result]

\* line 784: the result as JSON; an exception of the handler answers 500
json_response(result) ==
    IF Raises(result) THEN [status |-> 500] ELSE [status |-> 200, result |-> result]

\* lines 789-795, 942-949: the result as a workbook
xlsx_response(result) ==
    IF Raises(result) THEN [status |-> 500]
    ELSE [status |-> 200, xlsx |-> build_excel(result)]

\* the request is refused before the handler's body runs
Refused(status) == resp' = [status |-> status] /\ call' = NoCall

calculated(s, result) == call' = Called(s, result) /\ resp' = json_response(result)

\* lines 782-784: POST /api/calculate
api_calculate ==
    /\ pc = "recv"
    /\ req.route = "api_calculate"
    /\ IF ~get_current_user(req.cookie).ok THEN Refused(401)
       ELSE IF ~ShipmentIn(req.body) THEN Refused(422)
       ELSE calculated(req.body, calc_shipment(req.body))
    /\ pc' = "done"
    /\ UNCHANGED <<req, shipments, shipment_lines, product_templates>>
    /\ UNCHANGED <<accounts, engine>>

exported(s, result) == call' = Called(s, result) /\ resp' = xlsx_response(result)

\* lines 787-795: POST /api/export.xlsx
api_export ==
    /\ pc = "recv"
    /\ req.route = "api_export"
    /\ IF ~get_current_user(req.cookie).ok THEN Refused(401)
       ELSE IF ~ShipmentIn(req.body) THEN Refused(422)
       ELSE exported(req.body, calc_shipment(req.body))
    /\ pc' = "done"
    /\ UNCHANGED <<req, shipments, shipment_lines, product_templates>>
    /\ UNCHANGED <<accounts, engine>>

\* lines 811-827: the shipments row of a payload
shipment_row(id, user, payload, result) ==
    [id |-> id, tenant_id |-> user.tenant_id, created_by_user_id |-> user.id,
     awb |-> payload.awb, rate_per_kg |-> payload.rate_per_kg,
     duty_rate |-> payload.duty_rate,
     miami_to_ny_total |-> payload.miami_to_ny_total,
     margin_a |-> payload.margin_a, margin_b |-> payload.margin_b,
     kg_fb |-> Get(payload.kg_defaults, FB, Zero),
     kg_hb |-> Get(payload.kg_defaults, HB, Zero),
     kg_qb |-> Get(payload.kg_defaults, QB, Zero),
     w_fb |-> Get(payload.box_weights, FB, Zero),
     w_hb |-> Get(payload.box_weights, HB, Zero),
     w_qb |-> Get(payload.box_weights, QB, Zero),
     totals_json |-> result.totals]

\* lines 831-845: the shipment_lines row of a line
shipment_line_row(id, ln) ==
    [shipment_id |-> id, finca |-> ln.finca, origin |-> ln.origin,
     product |-> ln.product, box_type |-> norm_box(ln.box_type),
     boxes |-> ln.boxes, bunch_per_box |-> ln.bunch_per_box,
     stems_per_bunch |-> ln.stems_per_bunch, kg_per_box |-> ln.kg_per_box,
     price_per_bunch |-> ln.price_per_bunch]

\* lines 808-848: the handler's body once the payload is accepted
saved(id, user, payload, result) ==
    /\ call' = Called(payload, result)
    /\ IF Raises(result)
       THEN /\ resp' = [status |-> 500]
            /\ UNCHANGED <<shipments, shipment_lines>>
       ELSE /\ shipments' = Append(shipments, shipment_row(id, user, payload, result))
            /\ shipment_lines' = shipment_lines \o
                 [i \in 1..Len(payload.lines) |-> shipment_line_row(id, payload.lines[i])]
            /\ resp' = [status |-> 200, shipment_id |-> id, result |-> result]

\* lines 805-848: POST /api/shipments
save_shipment ==
    /\ pc = "recv"
    /\ req.route = "save_shipment"
    /\ IF ~get_current_user(req.cookie).ok
       THEN Refused(401) /\ UNCHANGED <<shipments, shipment_lines>>
       ELSE IF ~ShipmentIn(req.body)
       THEN Refused(422) /\ UNCHANGED <<shipments, shipment_lines>>
       ELSE saved(Len(shipments) + 1, get_current_user(req.cookie), req.body,
                  calc_shipment(req.body))
    /\ pc' = "done"
    /\ UNCHANGED <<req, product_templates>>
    /\ UNCHANGED <<accounts, engine>>

\* db.get(Shipment, id): the row's position in the table, 0 when there is none
shipment_index(id) ==
    IF \E i \in 1..Len(shipments) : shipments[i].id = id
    THEN CHOOSE i \in 1..Len(shipments) : shipments[i].id = id
    ELSE 0

\* lines 882, 916: the positions of a shipment's rows in shipment_lines
line_indexes(id) ==
    {i \in 1..Len(shipment_lines) : shipment_lines[i].shipment_id = id}

\* a SELECT without ORDER BY may answer the rows in any order
row_orders(id) ==
    LET idx == line_indexes(id)
    IN  {o \in [1..Cardinality(idx) -> idx] : \A i \in idx : \E k \in DOMAIN o : o[k] = i}

\* lines 883-906, 917-940: the payload rebuilt from the stored rows
stored_payload(sh, order) ==
    [awb |-> sh.awb, rate_per_kg |-> sh.rate_per_kg, duty_rate |-> sh.duty_rate,
     miami_to_ny_total |-> sh.miami_to_ny_total, margin_a |-> sh.margin_a,
     margin_b |-> sh.margin_b,
     kg_defaults |-> (FB :> sh.kg_fb) @@ (HB :> sh.kg_hb) @@ (QB :> sh.kg_qb),
     box_weights |-> (FB :> sh.w_fb) @@ (HB :> sh.w_hb) @@ (QB :> sh.w_qb),
     lines |-> [k \in DOMAIN order |->
                  LET l == shipment_lines[order[k]]
                  IN  [finca |-> l.finca, origin |-> l.origin, product |-> l.product,
                       box_type |-> l.box_type, boxes |-> l.boxes,
                       bunch_per_box |-> l.bunch_per_box,
                       stems_per_bunch |-> l.stems_per_bunch,
                       kg_per_box |-> l.kg_per_box,
                       price_per_bunch |-> l.price_per_bunch]]]

\* the shipment a user may read: its position in the table, 0 when it is not
\* there or is another tenant's (lines 878-880, 912-914)
readable_shipment(user, id) ==
    IF shipment_index(id) = 0 THEN 0
    ELSE IF shipments[shipment_index(id)].tenant_id # user.tenant_id THEN 0
    ELSE shipment_index(id)

\* line 907: the answer of GET /api/shipments/{shipment_id}
shipment_response(payload, result) ==
    IF Raises(result) THEN [status |-> 500]
    ELSE [status |-> 200, shipment |-> payload, result |-> result]

\* line 907: ShipmentIn(**payload) validates again, then the engine runs
recalculated(payload) ==
    IF ~ShipmentIn(payload) THEN Refused(500)
    ELSE /\ call' = Called(payload, calc_shipment(payload))
         /\ resp' = shipment_response(payload, calc_shipment(payload))

\* lines 876-907: GET /api/shipments/{shipment_id}
get_shipment ==
    /\ pc = "recv"
    /\ req.route = "get_shipment"
    /\ IF ~get_current_user(req.cookie).ok THEN Refused(401)
       ELSE IF readable_shipment(get_current_user(req.cookie), req.shipment_id) = 0
       THEN Refused(404)
       ELSE \E order \in row_orders(req.shipment_id) :
              recalculated(stored_payload(shipments[shipment_index(req.shipment_id)],
                                          order))
    /\ pc' = "done"
    /\ UNCHANGED <<req, shipments, shipment_lines, product_templates>>
    /\ UNCHANGED <<accounts, engine>>

\* lines 917-949: ShipmentIn(...) validates again, then the engine runs
reexported(payload) ==
    IF ~ShipmentIn(payload) THEN Refused(500)
    ELSE exported(payload, calc_shipment(payload))

\* lines 910-949: GET /api/shipments/{shipment_id}/export.xlsx
export_shipment_xlsx ==
    /\ pc = "recv"
    /\ req.route = "export_shipment_xlsx"
    /\ IF ~get_current_user(req.cookie).ok THEN Refused(401)
       ELSE IF readable_shipment(get_current_user(req.cookie), req.shipment_id) = 0
       THEN Refused(404)
       ELSE \E order \in row_orders(req.shipment_id) :
              reexported(stored_payload(shipments[shipment_index(req.shipment_id)],
                                        order))
    /\ pc' = "done"
    /\ UNCHANGED <<req, shipments, shipment_lines, product_templates>>
    /\ UNCHANGED <<accounts, engine>>

\* lines 758-763: the position of the tenant's template of that name, 0 if none
template_index(tenant_id, key) ==
    LET hits == {i \in 1..Len(product_templates) :
                    /\ product_templates[i].tenant_id = tenant_id
                    /\ product_templates[i].product_name = key}
    IN  IF hits = {} THEN 0 ELSE CHOOSE i \in hits : \A j \in hits : i <= j

\* lines 766-773: the row POST /api/products leaves for a payload
template_row(tenant_id, key, body) ==
    [tenant_id |-> tenant_id, product_name |-> key,
     box_type |-> norm_box(body.box_type), bunch_per_box |-> body.bunch_per_box,
     stems_per_bunch |-> body.stems_per_bunch, kg_per_box |-> body.kg_per_box,
     price_per_bunch |-> body.price_per_bunch]

\* lines 752-776: POST /api/products
upsert_product ==
    /\ pc = "recv"
    /\ req.route = "upsert_product"
    /\ LET user == get_current_user(req.cookie)
           key == normalize_product_name(req.body.product_name)
           i == template_index(user.tenant_id, key)
           row == template_row(user.tenant_id, key, req.body)
       IN  IF ~user.ok
           THEN resp' = [status |-> 401] /\ UNCHANGED product_templates
           ELSE IF ~ProductTemplateIn(req.body)
           THEN resp' = [status |-> 422] /\ UNCHANGED product_templates
           ELSE IF key = <<>>
           THEN resp' = [status |-> 400] /\ UNCHANGED product_templates
           ELSE /\ product_templates' =
                     IF i = 0 THEN Append(product_templates, row)
                     ELSE [product_templates EXCEPT ![i] = row]
                /\ resp' = [status |-> 200]
    /\ pc' = "done"
    /\ UNCHANGED <<req, call, shipments, shipment_lines>>
    /\ UNCHANGED <<accounts, engine>>

\* the client of a saved shipment asks for it, or for a shipment that is not there
NextRequest ==
    /\ pc = "done"
    /\ req.route = "save_shipment"
    /\ resp.status = 200
    /\ req' \in {[route |-> r, cookie |-> c, shipment_id |-> resp.shipment_id] :
                    r \in GetRoutes,
                    c \in {NoCookie, Token("u1"), Token("u2")}}
               \cup {[route |-> r, cookie |-> c,
                      shipment_id |-> resp.shipment_id + 1] :
                        r \in GetRoutes, c \in {BadCookie, Token("u1")}}
    /\ pc' = "recv"
    /\ UNCHANGED <<resp, call, shipments, shipment_lines, product_templates>>
    /\ UNCHANGED <<accounts, engine>>

Next ==
    \/ api_calculate
    \/ api_export
    \/ save_shipment
    \/ get_shipment
    \/ export_shipment_xlsx
    \/ upsert_product
    \/ NextRequest

Spec == Init /\ [][Next]_vars

(***************************************************************************)
(* Accounts: signup, login and Google sign-in run side by side, each in a   *)
(* thread and a database session of its own, beside the shipment routes.   *)
(***************************************************************************)
ProcA == "p1"
ProcB == "p2"
Procs == {ProcA, ProcB}

\* uuid4 values, in the order they are drawn
UserIds == <<"u1", "u2", "u3">>
TenantIds == <<"t1", "t2", "t3">>

\* what Google answers for an id_token: the claims of a valid one
GoogleInfoA == [valid |-> TRUE, email |-> EmailUpperA, sub |-> "g1"]
GoogleInvalid == [valid |-> FALSE, email |-> <<>>, sub |-> ""]

AuthRequests ==
    {[route |-> "auth_signup", email |-> EmailA, password |-> "pw1"],
     [route |-> "auth_signup", email |-> EmailUpperA, password |-> "pw2"],
     [route |-> "auth_signup", email |-> EmailB, password |-> "pw1"],
     [route |-> "auth_login", email |-> EmailUpperA, password |-> "pw1"],
     [route |-> "auth_login", email |-> EmailA, password |-> "bad"],
     [route |-> "auth_google", info |-> GoogleInfoA],
     [route |-> "auth_google", info |-> GoogleInvalid]}

\* lines 185-186
normalize_email(email) == Lower(Strip(OrEmpty(email)))

\* select(User).where(User.<field> == value) ... .first(): the position of
\* the first such row, 0 when there is none
first_user(field, value) ==
    IF \E i \in 1..Len(users) : users[i][field] = value
    THEN CHOOSE i \in 1..Len(users) :
             /\ users[i][field] = value
             /\ \A j \in 1..(i - 1) : users[j][field] # value
    ELSE 0

\* lines 511-525, 620-636: the tenant, settings and user rows of a new account
new_user(email, password_hash, google_sub) ==
    [id |-> UserIds[Len(users) + 1], tenant_id |-> TenantIds[Len(tenants) + 1],
     email |-> email, password_hash |-> password_hash, google_sub |-> google_sub]

\* lines 527-538: the JSON answer with the session cookie set
signed_in(user) == [status |-> 200, cookie |-> create_session_token(user)]

\* the request of p is answered
answered(p, r) ==
    procs' = [procs EXCEPT ![p].pc = "done", ![p].resp = r]

\* db.add(tenant), db.add(settings), db.add(user), db.commit()
inserted(p, user) ==
    /\ tenants' = Append(tenants, [id |-> user.tenant_id])
    /\ tenant_settings' = Append(tenant_settings, [tenant_id |-> user.tenant_id])
    /\ users' = Append(users, user)
    /\ answered(p, signed_in(user))

\* lines 506-509: POST /auth/signup looks for a user with the e-mail
auth_signup_select(p) ==
    /\ procs[p].pc = "start"
    /\ procs[p].req.route = "auth_signup"
    /\ IF first_user("email", normalize_email(procs[p].req.email)) # 0
       THEN answered(p, [status |-> 400])
       ELSE procs' = [procs EXCEPT ![p].pc = "insert"]
    /\ UNCHANGED <<pc, req, resp, call, shipments, shipment_lines,
                   product_templates, users, tenants, tenant_settings, engine>>

\* lines 511-538: POST /auth/signup inserts the account and signs in
auth_signup_commit(p) ==
    /\ procs[p].pc = "insert"
    /\ procs[p].req.route = "auth_signup"
    /\ inserted(p, new_user(normalize_email(procs[p].req.email),
                            procs[p].req.password, ""))
    /\ UNCHANGED <<pc, req, resp, call, shipments, shipment_lines,
                   product_templates, engine>>

\* lines 545-549: the user of a login, 0 when the credentials are refused
login_user(email, password) ==
    IF first_user("email", email) = 0 THEN 0
    ELSE IF users[first_user("email", email)].password_hash # password THEN 0
    ELSE first_user("email", email)

\* lines 542-563: POST /auth/login
auth_login(p) ==
    /\ procs[p].pc = "start"
    /\ procs[p].req.route = "auth_login"
    /\ IF login_user(normalize_email(procs[p].req.email), procs[p].req.password) = 0
       THEN answered(p, [status |-> 401])
       ELSE answered(p, signed_in(users[login_user(normalize_email(procs[p].req.email),
                                                   procs[p].req.password)]))
    /\ UNCHANGED <<pc, req, resp, call, shipments, shipment_lines,
                   product_templates, users, tenants, tenant_settings, engine>>

\* lines 611-613: the user of a Google sign-in, by google_sub, else by e-mail
google_user(email, sub) ==
    IF first_user("google_sub", sub) # 0 THEN first_user("google_sub", sub)
    ELSE first_user("email", email)

\* lines 617-618: google_sub is linked when the row has none
linked(user, sub) ==
    IF user.google_sub = "" THEN [user EXCEPT !.google_sub = sub] ELSE user

\* lines 590-619: POST /auth/google verifies the token and looks for the
\* user; a user found is linked and signed in
auth_google_select(p) ==
    /\ procs[p].pc = "start"
    /\ procs[p].req.route = "auth_google"
    /\ IF \/ ~procs[p].req.info.valid
          \/ normalize_email(procs[p].req.info.email) = <<>>
          \/ procs[p].req.info.sub = ""
       THEN answered(p, [status |-> 401]) /\ UNCHANGED users
       ELSE IF google_user(normalize_email(procs[p].req.info.email),
                           procs[p].req.info.sub) = 0
       THEN procs' = [procs EXCEPT ![p].pc = "insert"] /\ UNCHANGED users
       ELSE /\ users' = [users EXCEPT
                            ![google_user(normalize_email(procs[p].req.info.email),
                                          procs[p].req.info.sub)] =
                                linked(@, procs[p].req.info.sub)]
            /\ answered(p, signed_in(
                   users[google_user(normalize_email(procs[p].req.info.email),
                                     procs[p].req.info.sub)]))
    /\ UNCHANGED <<pc, req, resp, call, shipments, shipment_lines,
                   product_templates, tenants, tenant_settings, engine>>

\* lines 620-650: POST /auth/google inserts the account and signs in
auth_google_commit(p) ==
    /\ procs[p].pc = "insert"
    /\ procs[p].req.route = "auth_google"
    /\ inserted(p, new_user(normalize_email(procs[p].req.info.email), "",
                            procs[p].req.info.sub))
    /\ UNCHANGED <<pc, req, resp, call, shipments, shipment_lines,
                   product_templates, engine>>

\* lines 853-855 without the where clause on the tenant
every_shipment(rows, tenant_id) == rows

\* the rows of a tenant, lines 853-855
RECURSIVE tenant_shipments(_, _)
tenant_shipments(rows, tenant_id) ==
    IF rows = <<>> THEN <<>>
    ELSE IF Head(rows).tenant_id = tenant_id
    THEN <<Head(rows)>> \o tenant_shipments(Tail(rows), tenant_id)
    ELSE tenant_shipments(Tail(rows), tenant_id)

\* .order_by(Shipment.created_at.desc()): the latest insertion first
newest_first(rows) == [i \in 1..Len(rows) |-> rows[Len(rows) + 1 - i]]

\* .limit(min(max(limit, 1), 200)), line 856
limited(rows, limit) ==
    SubSeq(rows, 1, IF Len(rows) < (IF limit < 1 THEN 1 ELSE limit)
                    THEN Len(rows) ELSE (IF limit < 1 THEN 1 ELSE limit))

\* lines 861-871: what the list tells of a row
listed(r) ==
    [id |-> r.id, awb |-> r.awb, rate_per_kg |-> r.rate_per_kg,
     duty_rate |-> r.duty_rate, miami_to_ny_total |-> r.miami_to_ny_total]

\* lines 853-873: the answer of GET /api/shipments to a user
shipment_list(user, limit) ==
    [status |-> 200,
     shipments |-> [i \in 1..Len(limited(newest_first(
                                   tenant_shipments(shipments, user.tenant_id)), limit)) |->
                      listed(limited(newest_first(
                                   tenant_shipments(shipments, user.tenant_id)), limit)[i])]]

\* lines 851-873: GET /api/shipments
list_shipments ==
    /\ pc = "recv"
    /\ req.route = "list_shipments"
    /\ IF ~get_current_user(req.cookie).ok THEN Refused(401)
       ELSE /\ resp' = shipment_list(get_current_user(req.cookie), req.limit)
            /\ call' = NoCall
    /\ pc' = "done"
    /\ UNCHANGED <<req, shipments, shipment_lines, product_templates>>
    /\ UNCHANGED <<accounts, engine>>

\* the cookies the signed-in clients hold
IssuedCookies ==
    {procs[p].resp.cookie : p \in {q \in Procs : procs[q].resp.status = 200}}

\* a token for a user in another tenant than the user's, and one for a user
\* that is not stored
StrayCookies ==
    {[kind |-> "jwt", sub |-> "u1", tenant_id |-> "t2"],
     [kind |-> "jwt", sub |-> "u3", tenant_id |-> "t1"]}

SavedPayload == WithLines(BaseHeader, <<LineA>>)

\* the requests a client may send to the shipment routes
ApiRequests ==
    {[route |-> "save_shipment", cookie |-> c, body |-> SavedPayload] :
        c \in {k \in IssuedCookies \cup {NoCookie} : Len(shipments) < MaxShipments}}
    \cup {[route |-> "list_shipments", cookie |-> c, limit |-> l] :
            c \in IssuedCookies \cup StrayCookies \cup {NoCookie, BadCookie},
            l \in {0, 50}}
    \cup {[route |-> r, cookie |-> c, shipment_id |-> id] :
            r \in GetRoutes,
            c \in IssuedCookies \cup StrayCookies \cup {NoCookie, BadCookie},
            id \in 1..(Len(shipments) + 1)}

\* a client sends a request to one of the shipment routes
Arrive ==
    /\ pc = "done"
    /\ req' \in ApiRequests
    /\ pc' = "recv"
    /\ resp' = NoResp
    /\ call' = NoCall
    /\ UNCHANGED <<shipments, shipment_lines, product_templates, accounts, engine>>

\* no account, no shipment, and the /auth requests not yet handled
InitAccounts ==
    /\ procs \in [Procs -> {[pc |-> "start", req |-> r, resp |-> NoResp] :
                                r \in AuthRequests}]
    /\ users = <<>>
    /\ tenants = <<>>
    /\ tenant_settings = <<>>
    /\ pc = "done"
    /\ req = NoReq
    /\ resp = NoResp
    /\ call = NoCall
    /\ shipments = <<>>
    /\ shipment_lines = <<>>
    /\ product_templates = <<>>
    /\ threads = <<>>
    /\ frames = <<>>

NextAccounts ==
    \/ \E p \in Procs : auth_signup_select(p)
    \/ \E p \in Procs : auth_signup_commit(p)
    \/ \E p \in Procs : auth_login(p)
    \/ \E p \in Procs : auth_google_select(p)
    \/ \E p \in Procs : auth_google_commit(p)
    \/ Arrive
    \/ save_shipment
    \/ list_shipments
    \/ get_shipment
    \/ export_shipment_xlsx

SpecAccounts == InitAccounts /\ [][NextAccounts]_vars

(***************************************************************************)
(* calc_shipment step by step, called by several threads at once: FastAPI  *)
(* runs each request's handler in a thread of its pool.                    *)
(***************************************************************************)
ThreadA == "A"
ThreadB == "B"
Threads == {ThreadA, ThreadB}

\* the shipments the threads are called with
EngineArgs ==
    {WithLines(BaseHeader, <<LineA, LineB>>),
     WithLines(BaseHeader, <<LineB>>),
     WithLines([BaseHeader EXCEPT !.kg_defaults = KgPartial, !.box_weights = WPartial],
               <<[LineA EXCEPT !.box_type = <<" ", "h", "b", " ">>, !.boxes = 4,
                               !.kg_per_box = Zero], LineB>>),
     WithLines(BaseHeader, <<>>)}

\* the locals kept in one place for all invocations, as module-level state
\* would be
frame_shared(th) == ThreadA

\* the frame that holds the locals of thread th's invocation: its own
frame_of(th) == th

\* the pools before line 334 has assigned them
no_pools ==
    [total_boxes |-> 0, total_kilos |-> Zero, total_invoice |-> Zero,
     total_weighted_boxes |-> Zero, freight_total |-> Zero, duty_total |-> Zero,
     miami_total |-> Zero]

\* lines 289-293: the locals as the function's first statements leave them
fresh_frame ==
    [total_kilos |-> Zero, total_invoice |-> Zero, total_weighted_boxes |-> Zero,
     total_boxes |-> 0, base |-> <<>>, t |-> no_pools, out_lines |-> <<>>,
     grand_landed |-> Zero]

\* lines 310-332: the frame after base.append(...) and the four +=
frame_with_row(f, r) ==
    [f EXCEPT !.base = Append(f.base, r),
              !.total_boxes = f.total_boxes + r.boxes,
              !.total_kilos = Add(f.total_kilos, r.kg_line),
              !.total_invoice = Add(f.total_invoice, r.invoice_line),
              !.total_weighted_boxes = Add(f.total_weighted_boxes, r.weighted_boxes)]

\* lines 334-339: the pools from the frame's totals; out_lines and grand_landed
frame_with_pools(s, f) ==
    [f EXCEPT !.t = pools(s, f.total_boxes, f.total_kilos, f.total_invoice,
                          f.total_weighted_boxes),
              !.out_lines = <<>>,
              !.grand_landed = Zero]

\* lines 346-374: the frame after grand_landed += landed and out_lines.append
frame_with_line(f, out) ==
    [f EXCEPT !.out_lines = Append(f.out_lines, out),
              !.grand_landed = Add(f.grand_landed, out.landed_line)]

\* lines 376-387: what the invocation returns from its frame
returned_from(s, f) ==
    IF raised_in(f.out_lines) THEN [exc |-> "ZeroDivisionError"]
    ELSE [awb |-> s.awb, totals |-> totals_of(f.t, f.grand_landed),
          lines |-> f.out_lines]

\* lines 288-293: the call binds s and initialises the locals
calc_enter(th) ==
    /\ threads[th].pc = "called"
    /\ frames' = [frames EXCEPT ![frame_of(th)] = fresh_frame]
    /\ threads' = [threads EXCEPT ![th].pc = "first_loop", ![th].i = 1]
    /\ UNCHANGED <<pc, req, resp, call, shipments, shipment_lines,
                   product_templates, accounts>>

\* lines 294-332: one pass of the first loop
calc_first_loop(th) ==
    /\ threads[th].pc = "first_loop"
    /\ threads[th].i <= Len(threads[th].s.lines)
    /\ frames' = [frames EXCEPT ![frame_of(th)] =
                     frame_with_row(frames[frame_of(th)],
                                    base_row(threads[th].s,
                                             threads[th].s.lines[threads[th].i]))]
    /\ threads' = [threads EXCEPT ![th].i = threads[th].i + 1]
    /\ UNCHANGED <<pc, req, resp, call, shipments, shipment_lines,
                   product_templates, accounts>>

\* lines 334-339: the first loop is over
calc_pools(th) ==
    /\ threads[th].pc = "first_loop"
    /\ threads[th].i > Len(threads[th].s.lines)
    /\ frames' = [frames EXCEPT ![frame_of(th)] =
                     frame_with_pools(threads[th].s, frames[frame_of(th)])]
    /\ threads' = [threads EXCEPT ![th].pc = "second_loop", ![th].i = 1]
    /\ UNCHANGED <<pc, req, resp, call, shipments, shipment_lines,
                   product_templates, accounts>>

\* lines 341-374: one pass of the second loop, over the frame's base
calc_second_loop(th) ==
    /\ threads[th].pc = "second_loop"
    /\ threads[th].i <= Len(frames[frame_of(th)].base)
    /\ frames' = [frames EXCEPT ![frame_of(th)] =
                     frame_with_line(frames[frame_of(th)],
                                     out_line(threads[th].s,
                                              frames[frame_of(th)].base[threads[th].i],
                                              frames[frame_of(th)].t))]
    /\ threads' = [threads EXCEPT ![th].i = threads[th].i + 1]
    /\ UNCHANGED <<pc, req, resp, call, shipments, shipment_lines,
                   product_templates, accounts>>

\* lines 376-387: the second loop is over
calc_return(th) ==
    /\ threads[th].pc = "second_loop"
    /\ threads[th].i > Len(frames[frame_of(th)].base)
    /\ threads' = [threads EXCEPT ![th].pc = "returned",
                                  ![th].ret = returned_from(threads[th].s,
                                                            frames[frame_of(th)])]
    /\ UNCHANGED <<pc, req, resp, call, shipments, shipment_lines,
                   product_templates, accounts, frames>>

\* every thread has been called with a shipment and has not started
InitEngine ==
    /\ threads \in [Threads -> {[pc |-> "called", s |-> s, i |-> 0, ret |-> <<>>] :
                                    s \in EngineArgs}]
    /\ frames = [th \in Threads |-> <<>>]
    /\ pc = "done"
    /\ req = NoReq
    /\ resp = NoResp
    /\ call = NoCall
    /\ shipments = <<>>
    /\ shipment_lines = <<>>
    /\ product_templates = <<>>
    /\ users = <<>>
    /\ tenants = <<>>
    /\ tenant_settings = <<>>
    /\ procs = <<>>

NextEngine ==
    \/ \E th \in Threads : calc_enter(th)
    \/ \E th \in Threads : calc_first_loop(th)
    \/ \E th \in Threads : calc_pools(th)
    \/ \E th \in Threads : calc_second_loop(th)
    \/ \E th \in Threads : calc_return(th)

SpecEngine == InitEngine /\ [][NextEngine]_vars

(***************************************************************************)
(* Properties.  They speak of the last call of calc_shipment: its argument *)
(* (the validated payload) and the dict it returned.                       *)
(***************************************************************************)
\* calc_shipment was called and returned
Returned == call.made /\ ~Raises(call.ret)

\* the sum of a float field over all lines of a result
RECURSIVE SumOver(_, _)
SumOver(lines, f) ==
    IF lines = <<>> THEN Zero ELSE Add(lines[1][f], SumOver(Tail(lines), f))

\* the spec's two-line scenario: $2.00/kg, duty 0.20, $100 ground transport
Scenario == call.made /\ call.arg = WithLines(BaseHeader, <<LineA, LineB>>)

\* C1: conservation.  For each pool whose basis total is positive, the shares
\* of all lines add up to the pool: freight to total kilos x rate per kg, duty
\* to total invoice x duty rate, ground transport to miami_to_ny_total.
C1_Conservation ==
    Returned =>
        /\ Lt(Zero, SumOver(call.ret.lines, "kg_line")) =>
             SumOver(call.ret.lines, "freight_alloc") =
                 Mul(SumOver(call.ret.lines, "kg_line"), call.arg.rate_per_kg)
        /\ Lt(Zero, SumOver(call.ret.lines, "invoice_line")) =>
             SumOver(call.ret.lines, "duty_alloc") =
                 Mul(SumOver(call.ret.lines, "invoice_line"), call.arg.duty_rate)
        /\ Lt(Zero, SumOver(call.ret.lines, "weighted_boxes")) =>
             SumOver(call.ret.lines, "miami_alloc") = call.arg.miami_to_ny_total

\* a call with several lines, every basis and every pool positive, and a
\* share that is a proper fraction of its pool
C1_Witness ==
    /\ Returned
    /\ Len(call.ret.lines) = 2
    /\ Lt(Zero, SumOver(call.ret.lines, "freight_alloc"))
    /\ Lt(Zero, SumOver(call.ret.lines, "duty_alloc"))
    /\ Lt(Zero, SumOver(call.ret.lines, "miami_alloc"))
    /\ call.ret.lines[1].miami_alloc = Q(100, 3)
    /\ call.ret.lines[1].freight_alloc = R(300)
    /\ call.ret.lines[2].duty_alloc = R(80)

\* the grand landed total before it is rounded: the sum of the lines' landed totals
GrandLanded == SumOver(call.ret.lines, "landed_line")

\* the ground-transport pool as far as it is charged to lines: all of it when
\* the weighted-box basis is positive, none of it otherwise
GroundCharged ==
    IF Lt(Zero, SumOver(call.ret.lines, "weighted_boxes"))
    THEN call.arg.miami_to_ny_total ELSE Zero

\* invoice + freight pool + duty pool + charged ground transport, unrounded
PoolSum ==
    Add(Add(Add(SumOver(call.ret.lines, "invoice_line"),
                Mul(SumOver(call.ret.lines, "kg_line"), call.arg.rate_per_kg)),
            Mul(SumOver(call.ret.lines, "invoice_line"), call.arg.duty_rate)),
        GroundCharged)

\* the same sum taken from the rounded figures of the result's totals
ReportedPoolSum ==
    Add(Add(Add(call.ret.totals.total_invoice, call.ret.totals.freight_total),
            call.ret.totals.duty_total),
        IF Truthy(call.ret.totals.total_weighted_boxes)
        THEN call.ret.totals.miami_to_ny_total ELSE Zero)

Within(x, y, tol) == Le(Sub(x, y), tol) /\ Le(Sub(y, x), tol)

\* C2 as stated: in every result, the reported grand landed total is the
\* reported total invoice + freight total + duty total + ground-transport total.
C2_Original ==
    Returned =>
        call.ret.totals.grand_landed_total =
            Add(Add(Add(call.ret.totals.total_invoice, call.ret.totals.freight_total),
                    call.ret.totals.duty_total),
                call.ret.totals.miami_to_ny_total)

\* C2: the sum of the lines' landed totals is the invoice total + the freight
\* pool + the duty pool + the ground-transport total when the weighted-box
\* basis is positive (+ 0 when it is not); the result reports that sum rounded
\* to 2 decimals, which agrees with the sum of the reported, rounded
\* components to within 0.02; in the two-line scenario it is exactly 1720.
C2_GrandLanded ==
    Returned =>
        /\ GrandLanded = PoolSum
        /\ call.ret.totals.grand_landed_total = Round(GrandLanded, 2)
        /\ Within(call.ret.totals.grand_landed_total, ReportedPoolSum, Q(2, 100))
        /\ Scenario => call.ret.totals.grand_landed_total = R(1720)

\* the two-line scenario has been calculated: 600 + 900 + 120 + 100
C2_Witness ==
    /\ Returned
    /\ Scenario
    /\ call.ret.totals.total_invoice = R(600)
    /\ call.ret.totals.freight_total = R(900)
    /\ call.ret.totals.duty_total = R(120)
    /\ call.ret.totals.miami_to_ny_total = R(100)
    /\ GrandLanded = R(1720)

\* every line's field f is exactly zero
AllZero(lines, f) == \A i \in 1..Len(lines) : lines[i][f] = Zero

\* C3: degenerate allocation.  calc_shipment never raises; when the shipment
\* total of a basis is zero (no lines, or every line contributes zero), every
\* line's share of the matching pool is exactly 0; and the rule is per pool: a
\* zero basis leaves the shares of the other pools as their own bases decide
\* (C1_Conservation holds of them in the same states).
C3_Degenerate ==
    call.made =>
        /\ ~Raises(call.ret)
        /\ SumOver(call.ret.lines, "kg_line") = Zero =>
               AllZero(call.ret.lines, "freight_alloc")
        /\ SumOver(call.ret.lines, "invoice_line") = Zero =>
               AllZero(call.ret.lines, "duty_alloc")
        /\ SumOver(call.ret.lines, "weighted_boxes") = Zero =>
               AllZero(call.ret.lines, "miami_alloc")
        /\ \A i \in 1..Len(call.ret.lines) :
               /\ call.ret.lines[i].kg_line = Zero =>
                      call.ret.lines[i].freight_alloc = Zero
               /\ call.ret.lines[i].invoice_line = Zero =>
                      call.ret.lines[i].duty_alloc = Zero
               /\ call.ret.lines[i].weighted_boxes = Zero =>
                      call.ret.lines[i].miami_alloc = Zero

\* a shipment whose total weight is zero while its invoice and weighted-box
\* totals are not: a line with no freight share and positive duty and
\* ground-transport shares, the pools themselves being positive
C3_Witness ==
    /\ Returned
    /\ Len(call.ret.lines) > 0
    /\ Lt(Zero, call.arg.rate_per_kg)
    /\ Lt(Zero, call.arg.duty_rate)
    /\ Lt(Zero, call.arg.miami_to_ny_total)
    /\ SumOver(call.ret.lines, "kg_line") = Zero
    /\ call.ret.lines[1].freight_alloc = Zero
    /\ Lt(Zero, call.ret.lines[1].duty_alloc)
    /\ Lt(Zero, call.ret.lines[1].miami_alloc)

\* the per-box and per-bunch costs and sell prices of a line result
UnitPrices ==
    {"cost_per_box", "cost_per_bunch",
     "sell_box_m1", "sell_box_m2", "sell_bunch_m1", "sell_bunch_m2"}

\* C4: calc_shipment raises nothing, and every line whose box count is 0 has
\* cost per box = 0, cost per bunch = 0 and every sell price derived from them
\* = 0; so when every line's box count is 0, every unit cost of the result is 0.
C4_ZeroBoxes ==
    call.made =>
        /\ ~Raises(call.ret)
        /\ \A i \in 1..Len(call.ret.lines) :
               call.arg.lines[i].boxes = 0 =>
                   \A f \in UnitPrices : call.ret.lines[i][f] = Zero
        /\ (\A i \in 1..Len(call.arg.lines) : call.arg.lines[i].boxes = 0) =>
               \A i \in 1..Len(call.ret.lines) :
                   call.ret.lines[i].cost_per_box = Zero
                   /\ call.ret.lines[i].cost_per_bunch = Zero

\* a line of 0 boxes priced at 0 beside a line whose cost per box is positive
C4_Witness ==
    /\ Returned
    /\ Len(call.ret.lines) = 2
    /\ call.arg.lines[1].boxes = 0
    /\ call.ret.lines[1].cost_per_box = Zero
    /\ call.ret.lines[1].sell_bunch_m2 = Zero
    /\ Lt(Zero, call.ret.lines[2].cost_per_box)

KnownBoxes == {FB, HB, QB}

\* u is t without its leading and trailing whitespace
IsTrimOf(u, t) ==
    \E i \in 1..(Len(t) + 1) : \E j \in (i - 1)..Len(t) :
        /\ u = [k \in 1..(j - i + 1) |-> t[i + k - 1]]
        /\ \A k \in 1..(i - 1) : IsSpace(t[k])
        /\ \A k \in (j + 1)..Len(t) : IsSpace(t[k])
        /\ u # <<>> => ~IsSpace(u[1]) /\ ~IsSpace(u[Len(u)])

\* got is the category the policy assigns to the label: the trimmed,
\* upper-cased label when that is FB, HB or QB, and HB otherwise
Resolves(label, got) ==
    /\ got \in KnownBoxes
    /\ \A i \in 1..(Len(label) + 1) : \A j \in (i - 1)..Len(label) :
           IsTrimOf(SubSeq(label, i, j), label) =>
               got = IF Upper(SubSeq(label, i, j)) \in KnownBoxes
                     THEN Upper(SubSeq(label, i, j)) ELSE HB

\* POST /api/products has stored a template
TemplateStored ==
    pc = "done" /\ req.route = "upsert_product" /\ resp.status = 200

\* the row of product_templates the request's tenant and product name select
UpsertedRow ==
    product_templates[template_index(get_current_user(req.cookie).tenant_id,
                                     normalize_product_name(req.body.product_name))]

\* C5: norm_box is total and closed.  The category stored with a product
\* template, and the category of every line of a result, is a member of
\* {FB, HB, QB}: the trimmed, upper-cased label when that is FB, HB or QB, HB
\* for every other label (the empty and the whitespace-only ones included);
\* None resolves to HB; and resolving a resolved category changes nothing.
C5_NormBox ==
    /\ norm_box(None) = HB
    /\ norm_box(<<>>) = HB
    /\ TemplateStored =>
           /\ Resolves(req.body.box_type, UpsertedRow.box_type)
           /\ norm_box(UpsertedRow.box_type) = UpsertedRow.box_type
    /\ Returned =>
           \A i \in 1..Len(call.ret.lines) :
               /\ Resolves(call.arg.lines[i].box_type, call.ret.lines[i].box_type)
               /\ norm_box(call.ret.lines[i].box_type) = call.ret.lines[i].box_type

\* a label with leading whitespace and lower-case letters stored as QB
C5_Witness ==
    /\ TemplateStored
    /\ req.body.box_type = <<" ", "q", "b">>
    /\ UpsertedRow.box_type = QB

RECURSIVE SumBoxes(_)
SumBoxes(lines) ==
    IF lines = <<>> THEN 0 ELSE lines[1].boxes + SumBoxes(Tail(lines))

\* the effective per-box weight of an input line whose resolved category is cat
EffectiveKg(s, ln, cat) ==
    IF Lt(Zero, ln.kg_per_box) THEN ln.kg_per_box
    ELSE IF cat \in DOMAIN s.kg_defaults THEN s.kg_defaults[cat]
    ELSE Zero

\* the volumetric factor of the category cat
Factor(s, cat) ==
    IF cat \in DOMAIN s.box_weights THEN s.box_weights[cat] ELSE One

\* the line result out is the expansion of the input line ln
Expands(s, ln, out) ==
    /\ out.kg_per_box_used = EffectiveKg(s, ln, out.box_type)
    /\ out.kg_line = Mul(EffectiveKg(s, ln, out.box_type), R(ln.boxes))
    /\ out.invoice_box = Mul(ln.price_per_bunch, R(ln.bunch_per_box))
    /\ out.invoice_line =
           Mul(Mul(ln.price_per_bunch, R(ln.bunch_per_box)), R(ln.boxes))
    /\ out.weighted_boxes = Mul(R(ln.boxes), Factor(s, out.box_type))

\* C6: line expansion.  Every line result, taken with the category it was
\* resolved to, has: effective per-box weight = the line's own kg_per_box
\* when that is > 0, else kg_defaults[category], else 0; line weight =
\* effective weight x boxes; per-box invoice = price_per_bunch x
\* bunch_per_box; line invoice = per-box invoice x boxes; weighted boxes =
\* boxes x box_weights[category], the factor being 1 when the category is
\* absent.  The result has one line per input line, in input order, and its
\* totals are the sums of these quantities (boxes as an integer, kilos and
\* weighted boxes reported to 4 decimals, invoice to 2).
C6_LineExpansion ==
    Returned =>
        /\ Len(call.ret.lines) = Len(call.arg.lines)
        /\ \A i \in 1..Len(call.ret.lines) :
               Expands(call.arg, call.arg.lines[i], call.ret.lines[i])
        /\ call.ret.totals.total_boxes = SumBoxes(call.arg.lines)
        /\ call.ret.totals.total_kilos =
               Round(SumOver(call.ret.lines, "kg_line"), 4)
        /\ call.ret.totals.total_invoice =
               Round(SumOver(call.ret.lines, "invoice_line"), 2)
        /\ call.ret.totals.total_weighted_boxes =
               Round(SumOver(call.ret.lines, "weighted_boxes"), 4)

\* a line typed " hb " without a weight of its own takes the HB default of 15
\* kg and the HB factor of 1/2, beside a line that carries its own weight
C6_Witness ==
    /\ Returned
    /\ Len(call.ret.lines) = 2
    /\ call.arg.lines[1].box_type = <<" ", "h", "b", " ">>
    /\ call.arg.lines[1].kg_per_box = Zero
    /\ call.ret.lines[1].kg_per_box_used = R(15)
    /\ call.ret.lines[1].kg_line = R(60)
    /\ call.ret.lines[1].weighted_boxes = R(2)
    /\ call.arg.lines[2] = LineB
    /\ call.ret.totals.total_boxes = 14
    /\ call.ret.totals.total_kilos = R(360)

\* the line result out is priced at margin m in the fields box and bunch
Priced(out, m, box, bunch) ==
    /\ out[box] = Div(out.cost_per_box, Sub(One, m))
    /\ out[bunch] = Div(out[box], R(out.bunch_per_box))

\* C7: pricing.  For each of margin_a and margin_b, every line's sell price
\* per box is its cost per box / (1 - margin) and its sell price per bunch is
\* that sell price per box / bunch_per_box; both are priced from the one
\* cost_per_box of the line, which is landed_line / boxes (0 for 0 boxes).
C7_Pricing ==
    Returned =>
        \A i \in 1..Len(call.ret.lines) :
            /\ Priced(call.ret.lines[i], call.arg.margin_a, "sell_box_m1", "sell_bunch_m1")
            /\ Priced(call.ret.lines[i], call.arg.margin_b, "sell_box_m2", "sell_bunch_m2")
            /\ call.ret.lines[i].boxes > 0 =>
                   call.ret.lines[i].cost_per_box =
                       Div(call.ret.lines[i].landed_line, R(call.ret.lines[i].boxes))

\* the two-line scenario: the first line costs 172/3 per box and sells at
\* 3440/39 per box at 35% and 860/9 at 40%
C7_Witness ==
    /\ Returned
    /\ Scenario
    /\ call.ret.lines[1].cost_per_box = Q(172, 3)
    /\ call.ret.lines[1].sell_box_m1 = Q(3440, 39)
    /\ call.ret.lines[1].sell_box_m2 = Q(860, 9)
    /\ call.ret.lines[1].sell_bunch_m1 = Q(344, 39)

\* margins the validation admits, the two bounds included
Margins == {Zero, Q(35, 100), Q(40, 100), MarginMax}

\* the sell prices of the line result out at the lower margin are strictly
\* below those at the higher margin, whichever of the two margins is lower
StrictlyOrdered(s, out) ==
    /\ Lt(s.margin_a, s.margin_b) =>
           Lt(out.sell_box_m1, out.sell_box_m2) /\ Lt(out.sell_bunch_m1, out.sell_bunch_m2)
    /\ Lt(s.margin_b, s.margin_a) =>
           Lt(out.sell_box_m2, out.sell_box_m1) /\ Lt(out.sell_bunch_m2, out.sell_bunch_m1)

\* C8 as stated: for every line result and margins m1 < m2, the sell price
\* per box at m2 is strictly higher than at m1, and likewise per bunch.
C8_Original ==
    Returned =>
        \A i \in 1..Len(call.ret.lines) : StrictlyOrdered(call.arg, call.ret.lines[i])

\* C8: margin monotonicity.  For a line result whose cost per box is > 0 and
\* margins m1 < m2, the sell price per box at m2 is strictly higher than at
\* m1, and likewise per bunch; for a line whose cost per box is 0 every sell
\* price is 0 at every margin.  The same holds of the pricing rule at any two
\* admissible margins applied to the line's cost per box.
C8_Monotone ==
    Returned =>
        \A i \in 1..Len(call.ret.lines) :
            /\ Lt(Zero, call.ret.lines[i].cost_per_box) =>
                   /\ StrictlyOrdered(call.arg, call.ret.lines[i])
                   /\ \A m1, m2 \in Margins :
                          Lt(m1, m2) =>
                              Lt(sell_box(call.ret.lines[i].cost_per_box, m1),
                                 sell_box(call.ret.lines[i].cost_per_box, m2))
            /\ call.ret.lines[i].cost_per_box = Zero =>
                   /\ call.ret.lines[i].sell_box_m1 = Zero
                   /\ call.ret.lines[i].sell_box_m2 = Zero
                   /\ call.ret.lines[i].sell_bunch_m1 = Zero
                   /\ call.ret.lines[i].sell_bunch_m2 = Zero
                   /\ \A m \in Margins : sell_box(Zero, m) = Zero

\* margin_a < margin_b: a line that costs nothing sells at 0 at both margins,
\* beside a line with a positive cost whose prices are strictly ordered
C8_Witness ==
    /\ Returned
    /\ Len(call.ret.lines) = 2
    /\ Lt(call.arg.margin_a, call.arg.margin_b)
    /\ call.ret.lines[1].cost_per_box = Zero
    /\ call.ret.lines[1].sell_box_m1 = call.ret.lines[1].sell_box_m2
    /\ Lt(Zero, call.ret.lines[2].cost_per_box)
    /\ Lt(call.ret.lines[2].sell_box_m1, call.ret.lines[2].sell_box_m2)
    /\ Lt(call.ret.lines[2].sell_bunch_m1, call.ret.lines[2].sell_bunch_m2)

Negative(x) == Lt(x, Zero)

\* a configuration error in a line: a negative weight, price or box count
BadLine(ln) ==
    Negative(ln.kg_per_box) \/ Negative(ln.price_per_bunch) \/ ln.boxes < 0

\* a configuration error in a shipment: a margin >= 1, a duty rate outside
\* [0, 1], or a negative rate, total, weight, price or box count
BadConfig(s) ==
    \/ Le(One, s.margin_a) \/ Le(One, s.margin_b)
    \/ Negative(s.duty_rate) \/ Lt(One, s.duty_rate)
    \/ Negative(s.rate_per_kg) \/ Negative(s.miami_to_ny_total)
    \/ \E k \in DOMAIN s.kg_defaults : Negative(s.kg_defaults[k])
    \/ \E k \in DOMAIN s.box_weights : Negative(s.box_weights[k])
    \/ \E i \in 1..Len(s.lines) : BadLine(s.lines[i])

SellPrices == {"sell_box_m1", "sell_box_m2", "sell_bunch_m1", "sell_bunch_m2"}

\* the request in hand has been answered
Answered == pc = "done"

\* C9: configuration errors are rejected before the engine runs.  On each of
\* the five routes that reach calc_shipment, the engine has only ever run on a
\* shipment without a configuration error, so with 1 - margin > 0 for both
\* margins, and it has raised nothing and produced sell prices that are
\* finite and not negative; a POST whose body has a configuration error is
\* answered 401 or 422 without a call of calc_shipment and without a row
\* being written.
C9_RejectedBeforeEngine ==
    /\ call.made =>
           /\ ~BadConfig(call.arg)
           /\ Lt(Zero, Sub(One, call.arg.margin_a))
           /\ Lt(Zero, Sub(One, call.arg.margin_b))
           /\ ~Raises(call.ret)
           /\ \A i \in 1..Len(call.ret.lines) : \A f \in SellPrices :
                  ~IsRaised(call.ret.lines[i][f]) /\ Le(Zero, call.ret.lines[i][f])
    /\ Answered /\ req.route \in PostRoutes /\ BadConfig(req.body) =>
           /\ resp.status \in {401, 422}
           /\ call = NoCall
           /\ shipments = <<>> /\ shipment_lines = <<>>
    /\ \A i \in 1..Len(shipments) :
           \A order \in row_orders(shipments[i].id) :
               ~BadConfig(stored_payload(shipments[i], order))

\* a signed-in POST /api/calculate with margin_a = 1 answered 422, the engine
\* not having run
C9_Witness ==
    /\ Answered
    /\ req.route = "api_calculate"
    /\ get_current_user(req.cookie).ok
    /\ req.body.margin_a = One
    /\ resp.status = 422
    /\ call = NoCall

\* C10 as stated: every line result carries a cost per stem equal to its cost
\* per box / (bunch_per_box x stems_per_bunch), by the same safe division as
\* cost per box and cost per bunch (cost per bunch = cost per box /
\* bunch_per_box).
C10_CostPerStem ==
    Returned =>
        \A i \in 1..Len(call.ret.lines) :
            /\ call.ret.lines[i].cost_per_bunch =
                   safe_div(call.ret.lines[i].cost_per_box,
                            R(call.ret.lines[i].bunch_per_box))
            /\ "cost_per_stem" \in DOMAIN call.ret.lines[i]
            /\ call.ret.lines[i].cost_per_stem =
                   safe_div(call.ret.lines[i].cost_per_box,
                            R(call.ret.lines[i].bunch_per_box
                                * call.ret.lines[i].stems_per_bunch))

\* the fields of an input line that a line result repeats
EchoedFields ==
    {"finca", "origin", "product", "boxes", "bunch_per_box", "stems_per_bunch",
     "price_per_bunch"}

\* C11: calc_shipment returns one line result per input line, in input order:
\* the i-th result repeats finca, origin, product, boxes, bunch_per_box,
\* stems_per_bunch and price_per_bunch of the i-th input line and is the
\* expansion of that line; and the payload a POST handler holds after the
\* calculation is the payload it received, header and lines unchanged.
C11_OrderAndEcho ==
    /\ Returned =>
           /\ Len(call.ret.lines) = Len(call.arg.lines)
           /\ \A i \in 1..Len(call.ret.lines) :
                  /\ \A f \in EchoedFields :
                         call.ret.lines[i][f] = call.arg.lines[i][f]
                  /\ Expands(call.arg, call.arg.lines[i], call.ret.lines[i])
    /\ Answered /\ req.route \in PostRoutes /\ call.made => call.arg = req.body

\* two lines that differ in every echoed text field, sent with the
\* alphabetically later one first, and answered in that order
C11_Witness ==
    /\ Returned
    /\ Answered
    /\ req.route \in PostRoutes
    /\ call.arg.lines = <<LineA, LineB>>
    /\ call.ret.lines[1].finca = "La Rosa"
    /\ call.ret.lines[2].finca = "El Campo"
    /\ call.ret.lines[2].product = "Carnation"
    /\ call.ret.lines[2].stems_per_bunch = 20

\* labels a client may type for a category, the unknown and the empty ones
\* (which resolve to HB) included
TypedLabels ==
    {HB, <<"X", "Y", "Z">>, <<>>, <<" ", "h", "b", " ">>, <<"h", "b">>,
     FB, <<"f", "b", " ">>, QB, <<"\t", "Q", "b">>}

\* the shipment s with the label of its i-th line replaced by l
Relabelled(s, i, l) == [s EXCEPT !.lines[i].box_type = l]

\* C13: label-insensitivity.  Replacing the box_type label of one line by any
\* other label that resolves to the same category leaves the result of
\* calc_shipment unchanged: totals and every line result are identical.
C13_LabelInsensitive ==
    Returned =>
        \A i \in 1..Len(call.arg.lines) : \A l \in TypedLabels :
            norm_box(l) = norm_box(call.arg.lines[i].box_type) =>
                calc_shipment(Relabelled(call.arg, i, l)) = call.ret

\* a line typed " hb " with boxes, whose default weight and volumetric factor
\* are looked up (no weight of its own), in a shipment whose mappings have
\* entries for HB: "XYZ" in its place gives the same result
C13_Witness ==
    /\ Returned
    /\ Len(call.arg.lines) = 2
    /\ call.arg.lines[1].box_type = <<" ", "h", "b", " ">>
    /\ call.arg.lines[1].boxes > 0
    /\ call.arg.lines[1].kg_per_box = Zero
    /\ HB \in DOMAIN call.arg.kg_defaults
    /\ call.ret.lines[1].kg_per_box_used = R(15)
    /\ call.ret.lines[1].weighted_boxes = R(2)
    /\ calc_shipment(Relabelled(call.arg, 1, <<"X", "Y", "Z">>)) = call.ret
    /\ calc_shipment(Relabelled(call.arg, 1, FB)) # call.ret

\* the mapping key k names the category cat once trimmed and upper-cased
KeyNames(k, cat) == Upper(Strip(k)) = cat

\* C14 as stated: an entry of kg_defaults or box_weights whose key normalizes
\* to a category supplies the default per-box weight, respectively the
\* volumetric factor, of every line of that category, as an entry keyed by
\* the category itself would.
C14_KeysNormalized ==
    Returned =>
        \A i \in 1..Len(call.ret.lines) :
            /\ \A k \in DOMAIN call.arg.kg_defaults :
                   /\ KeyNames(k, call.ret.lines[i].box_type)
                   /\ ~Lt(Zero, call.arg.lines[i].kg_per_box)
                   => call.ret.lines[i].kg_per_box_used = call.arg.kg_defaults[k]
            /\ \A k \in DOMAIN call.arg.box_weights :
                   KeyNames(k, call.ret.lines[i].box_type) =>
                       call.ret.lines[i].weighted_boxes =
                           Mul(R(call.ret.lines[i].boxes), call.arg.box_weights[k])

\* C15 as stated: a GET /api/shipments/{id} answered to a user of the tenant
\* that saved the shipment returns the result the save request returned: the
\* same totals and the same line results in the same order.
C15_RoundTrip ==
    [][(/\ pc = "recv"
        /\ req.route = "get_shipment"
        /\ resp.status = 200
        /\ resp'.status = 200)
       => resp'.result = resp.result]_vars

\* C12: determinism and independence.  Whatever the interleaving of the
\* threads' steps, an invocation of calc_shipment returns what calc_shipment
\* run alone returns for its argument; so two invocations with identical
\* arguments return identical results.
C12_Independent ==
    \A th \in Threads :
        threads[th].pc = "returned" =>
            /\ threads[th].ret = calc_shipment(threads[th].s)
            /\ \A other \in Threads :
                   /\ threads[other].pc = "returned"
                   /\ threads[other].s = threads[th].s
                   => threads[other].ret = threads[th].ret

\* thread A has returned the result of the two-line scenario while thread B,
\* called with another shipment, is between two passes of its second loop
C12_Witness ==
    /\ threads[ThreadA].pc = "returned"
    /\ threads[ThreadA].s = WithLines(BaseHeader, <<LineA, LineB>>)
    /\ threads[ThreadA].ret.totals.grand_landed_total = R(1720)
    /\ threads[ThreadB].pc = "second_loop"
    /\ threads[ThreadB].i = 2
    /\ threads[ThreadB].s # threads[ThreadA].s
    /\ Len(frames[ThreadB].out_lines) = 1
    /\ Len(frames[ThreadA].out_lines) = 2

\* the cookie is a decodable token that names a stored user and that user's
\* tenant
ValidSession(cookie) ==
    /\ cookie.kind = "jwt"
    /\ \E i \in 1..Len(users) :
           users[i].id = cookie.sub /\ users[i].tenant_id = cookie.tenant_id

\* the shipment of that id is stored and belongs to another tenant
ForeignShipment(id, tenant_id) ==
    \E i \in 1..Len(shipments) :
        shipments[i].id = id /\ shipments[i].tenant_id # tenant_id

ReadRoutes == {"list_shipments", "get_shipment", "export_shipment_xlsx"}

\* C16: tenant isolation.  After any run of signups, logins, Google sign-ins
\* and shipment saves: a request to a shipment-reading route without a valid
\* session (no cookie, an undecodable one, or a token whose user and tenant
\* match no stored user) is answered 401 and nothing else, the engine not
\* having run; GET /api/shipments lists only shipments of the authenticated
\* user's tenant; and GET /api/shipments/{id} and its export answer 404 and
\* nothing else for a shipment of another tenant.
C16_TenantIsolation ==
    Answered /\ req.route \in ReadRoutes =>
        /\ ~ValidSession(req.cookie) => resp = [status |-> 401] /\ call = NoCall
        /\ ValidSession(req.cookie) /\ req.route = "list_shipments" =>
               /\ resp.status = 200
               /\ \A k \in 1..Len(resp.shipments) :
                      \E i \in 1..Len(shipments) :
                          /\ shipments[i].id = resp.shipments[k].id
                          /\ shipments[i].tenant_id = req.cookie.tenant_id
        /\ /\ ValidSession(req.cookie)
           /\ req.route \in GetRoutes
           /\ ForeignShipment(req.shipment_id, req.cookie.tenant_id)
           => resp = [status |-> 404] /\ call = NoCall

\* two tenants have saved a shipment each; a signed-in user of one has asked
\* for the list and got the own shipment only
C16_Witness ==
    /\ Answered
    /\ req.route = "list_shipments"
    /\ req.limit = 50
    /\ ValidSession(req.cookie)
    /\ Len(shipments) = 2
    /\ shipments[1].tenant_id # shipments[2].tenant_id
    /\ resp.status = 200
    /\ Len(resp.shipments) = 1

\* C17 as stated: in every reachable state no two rows of users have the same
\* normalized e-mail, whatever the interleaving of the signups and Google
\* sign-ins.
C17_EmailUnique ==
    \A i, j \in 1..Len(users) :
        i # j => normalize_email(users[i].email) # normalize_email(users[j].email)

=============================================================================
